---- MODULE Spec2Model ----
(***************************************************************************)
(* Model of flclient/cli.py (FitLayoutCLI): the bulk RDF transfer          *)
(* operations import_file, dump and export, with the HTTP requests they    *)
(* issue, the files they read and write, what they print and how they      *)
(* end (normal return or an exception raised to the caller).               *)
(*                                                                         *)
(* One behaviour is one call of one operation on a fresh client.           *)
(* Bytes are integers (97 = 'a', 10 = LF, 13 = CR), characters of a        *)
(* decoded text are strings ("a", "LF", "CR").                             *)
(***************************************************************************)
EXTENDS Integers, Sequences, FiniteSets, TLC

\* ---------------------------------------------------------------- bounds
MaxLen == 5            \* longest source file, in bytes
MaxSplit == 2          \* largest split argument tried

\* ------------------------------------------------------------ data model
Bytes == {97, 10, 13}

RECURSIVE SeqsUpTo(_, _)
SeqsUpTo(S, n) ==
    IF n = 0 THEN {<<>>}
    ELSE LET shorter == SeqsUpTo(S, n - 1)
         IN  shorter \cup {Append(s, b) : s \in {t \in shorter : Len(t) = n - 1}, b \in S}

NoFile == [exists |-> FALSE, data |-> <<>>]
File(d) == [exists |-> TRUE, data |-> d]

\* cli.py 14-20: format name -> MIME type, in insertion order
FormatNames == <<"turtle", "n3", "json-ld", "xml", "nquads">>
mime_types ==
    [fmt \in {FormatNames[k] : k \in 1..Len(FormatNames)} |->
        CASE fmt = "turtle"  -> "text/turtle"
          [] fmt = "n3"      -> "application/n-triples"
          [] fmt = "json-ld" -> "application/ld+json"
          [] fmt = "xml"     -> "application/edf+xml"
          [] fmt = "nquads"  -> "application/n-quads"]

\* mime_types.get(format): "" stands for None (falsy)
mime_types_get(fmt) == IF fmt \in DOMAIN mime_types THEN mime_types[fmt] ELSE ""

\* format arguments tried by the caller: the five names and an unknown one
FormatArgs == DOMAIN mime_types \cup {"pdf"}

\* split argument: None, or an integer 0..MaxSplit
NoSplit == [given |-> FALSE, n |-> 0]
SplitArgs == {NoSplit} \cup {[given |-> TRUE, n |-> k] : k \in 0..MaxSplit}
\* Python truthiness of split: None and 0 are falsy
Truthy(sp) == sp.given /\ sp.n # 0

\* self.fl.repo_endpoint() + "/repository/statements"
repo_endpoint == "<connection_url>/<repo_id>"
StatementsEndpoint == <<repo_endpoint, "/repository/statements">>

\* HTTP statuses the repository answers with; 0 in `responses` stands for a
\* network-level failure (requests raises ConnectionError, no response)
Statuses == {200, 404, 500}
NetworkError == 0
\* Response.raise_for_status(): raises HTTPError for 4xx and 5xx
raise_for_status(status) == status >= 400 /\ status < 600

\* ------------------------------------------------- text-mode file reading
\* open(input_file, "r"): decoding of ASCII bytes to characters
DecodeByte(b) == CASE b = 10 -> "LF" [] b = 13 -> "CR" [] OTHER -> "a"
\* data.encode('utf-8') on ASCII characters
EncodeChar(c) == CASE c = "LF" -> 10 [] c = "CR" -> 13 [] OTHER -> 97

Decode(bs) == [k \in 1..Len(bs) |-> DecodeByte(bs[k])]
Encode(cs) == [k \in 1..Len(cs) |-> EncodeChar(cs[k])]

\* universal newlines (newline=None): "\r\n" and "\r" are read as "\n"
RECURSIVE TranslateNewlines(_)
TranslateNewlines(cs) ==
    IF cs = <<>> THEN <<>>
    ELSE IF Head(cs) = "CR"
         THEN IF Len(cs) >= 2 /\ cs[2] = "LF"
              THEN <<"LF">> \o TranslateNewlines(SubSeq(cs, 3, Len(cs)))
              ELSE <<"LF">> \o TranslateNewlines(Tail(cs))
         ELSE <<Head(cs)>> \o TranslateNewlines(Tail(cs))

\* iteration over a text file: each line keeps its "\n"; the last line may
\* have none
RECURSIVE SplitLines(_, _)
SplitLines(cs, cur) ==
    IF cs = <<>> THEN (IF cur = <<>> THEN <<>> ELSE <<cur>>)
    ELSE IF Head(cs) = "LF"
         THEN <<Append(cur, "LF")>> \o SplitLines(Tail(cs), <<>>)
         ELSE SplitLines(Tail(cs), Append(cur, Head(cs)))

\* the lines `for i, line in enumerate(f)` yields for a file of bytes bs
ReadTextLines(bs) == SplitLines(TranslateNewlines(Decode(bs)), <<>>)

\* "".join(chunk)
RECURSIVE Join(_)
Join(ls) == IF ls = <<>> THEN <<>> ELSE Head(ls) \o Join(Tail(ls))

\* ------------------------------------------------------------- rdflib
Graphs == {1, 2}
\* serializer names known to rdflib among the arguments tried
Serializable(fmt) == fmt \in DOMAIN mime_types
FormatIndex(fmt) == CHOOSE k \in 1..Len(FormatNames) : FormatNames[k] = fmt
\* artifact_graph.serialize(format=format): a text determined by graph and format
serialize(g, fmt) == <<97, g, FormatIndex(fmt)>>

\* text of a successful bulk-fetch response
ResponseTexts == {<<>>, <<97, 10>>}

\* ------------------------------------------------------------- state
VARIABLES
    pc,          \* position in the running operation
    op,          \* operation called: "none", "import_file", "dump", "export"
    format,      \* the format argument
    split,       \* the split argument of import_file
    useOut,      \* whether output_file was given (dump, export)
    graph,       \* the artifact_graph argument of export
    inFile,      \* the file at input_file
    outFile,     \* the file at output_file
    f,           \* lines of the open text file, as iterated
    i,           \* number of lines read so far (enumerate index + 1)
    chunk,       \* the chunk buffer
    requests,    \* HTTP requests issued so far, in order
    responses,   \* outcome of each completed request, in order
    repo,        \* bodies the repository has stored, in order
    out,         \* what was printed, in order
    outcome      \* how the call ended

vars == <<pc, op, format, split, useOut, graph, inFile, outFile, f, i, chunk,
          requests, responses, repo, out, outcome>>

Running == [kind |-> "running", status |-> 0]
Returned == [kind |-> "returned", status |-> 0]
Raised(kind, status) == [kind |-> kind, status |-> status]

Msg(m, a) == [msg |-> m, arg |-> a]

Post(ctype, body) ==
    [method |-> "POST", endpoint |-> StatementsEndpoint,
     header |-> <<"Content-Type", ctype>>, body |-> body]
Get(accept) ==
    [method |-> "GET", endpoint |-> StatementsEndpoint,
     header |-> <<"Accept", accept>>, body |-> <<>>]

Init ==
    /\ pc = "idle"
    /\ op = "none"
    /\ format = ""
    /\ split = NoSplit
    /\ useOut = FALSE
    /\ graph = 1
    /\ inFile \in {NoFile} \cup {File(d) : d \in SeqsUpTo(Bytes, MaxLen)}
    /\ outFile \in {NoFile, File(<<97, 13, 10>>)}
    /\ f = <<>>
    /\ i = 0
    /\ chunk = <<>>
    /\ requests = <<>>
    /\ responses = <<>>
    /\ repo = <<>>
    /\ out = <<>>
    /\ outcome = Running

UnsupportedMsg(fmt) == Msg("Unsupported format", <<fmt, FormatNames>>)

\* ------------------------------------------------------------ import_file
\* import_file choosing the chunked path whenever split is truthy, whatever the format
import_file_any_format(fmt, sp) ==
    /\ pc = "idle"
    /\ op' = "import_file"
    /\ format' = fmt
    /\ split' = sp
    /\ IF mime_types_get(fmt) = ""
       THEN /\ out' = Append(out, UnsupportedMsg(fmt))
            /\ pc' = "done"
            /\ outcome' = Returned
       ELSE IF Truthy(sp)
       THEN /\ out' = Append(out, Msg("Importing in chunks", <<sp.n>>))
            /\ pc' = "chunk_open"
            /\ outcome' = outcome
       ELSE /\ out' = Append(out, Msg("Importing", <<>>))
            /\ pc' = "single_open"
            /\ outcome' = outcome
    /\ UNCHANGED <<useOut, graph, inFile, outFile, f, i, chunk, requests, responses, repo>>

\* cli.py 204-213, 236-238: format check and choice of the path
import_file(fmt, sp) ==
    /\ pc = "idle"
    /\ op' = "import_file"
    /\ format' = fmt
    /\ split' = sp
    /\ IF mime_types_get(fmt) = ""
       THEN /\ out' = Append(out, UnsupportedMsg(fmt))
            /\ pc' = "done"
            /\ outcome' = Returned
       ELSE IF Truthy(sp) /\ fmt \in {"nquads", "n3"}
       THEN /\ out' = Append(out, Msg("Importing in chunks", <<sp.n>>))
            /\ pc' = "chunk_open"
            /\ outcome' = outcome
       ELSE /\ out' = out
                \o (IF Truthy(sp) THEN <<Msg("Warning: split ignored", <<fmt>>)>> ELSE <<>>)
                \o <<Msg("Importing", <<>>)>>
            /\ pc' = "single_open"
            /\ outcome' = outcome
    /\ UNCHANGED <<useOut, graph, inFile, outFile, f, i, chunk, requests, responses, repo>>

\* cli.py 215-216, 231-232: open the source in text mode
chunked_open ==
    /\ pc = "chunk_open"
    /\ IF ~inFile.exists
       THEN /\ out' = Append(out, Msg("Error: Input file not found", <<>>))
            /\ pc' = "done"
            /\ outcome' = Returned
            /\ UNCHANGED <<f, i, chunk>>
       ELSE /\ f' = ReadTextLines(inFile.data)
            /\ i' = 0
            /\ chunk' = <<>>
            /\ pc' = "chunk_loop"
            /\ UNCHANGED <<out, outcome>>
    /\ UNCHANGED <<op, format, split, useOut, graph, inFile, outFile, requests, responses, repo>>

\* the loop flushing when i % split == 0 (enumerate index not advanced by one)
chunked_next_line_off_by_one ==
    /\ pc = "chunk_loop"
    /\ i < Len(f)
    /\ chunk' = Append(chunk, f[i + 1])
    /\ i' = i + 1
    /\ IF i % split.n = 0
       THEN /\ requests' = Append(requests, Post(mime_types[format], Encode(Join(chunk'))))
            /\ pc' = "chunk_post"
       ELSE /\ UNCHANGED <<requests, pc>>
    /\ UNCHANGED <<op, format, split, useOut, graph, inFile, outFile, f, responses, repo, out, outcome>>

\* cli.py 217-221: read one line, append it, flush when (i + 1) % split == 0
chunked_next_line ==
    /\ pc = "chunk_loop"
    /\ i < Len(f)
    /\ chunk' = Append(chunk, f[i + 1])
    /\ i' = i + 1
    /\ IF (i + 1) % split.n = 0
       THEN /\ requests' = Append(requests, Post(mime_types[format], Encode(Join(chunk'))))
            /\ pc' = "chunk_post"
       ELSE /\ UNCHANGED <<requests, pc>>
    /\ UNCHANGED <<op, format, split, useOut, graph, inFile, outFile, f, responses, repo, out, outcome>>

\* the loop forgetting `chunk = []` after a successful upload
chunked_post_response_keep_chunk(status) ==
    /\ pc = "chunk_post"
    /\ responses' = Append(responses, status)
    /\ IF raise_for_status(status)
       THEN /\ out' = Append(out, Msg("An error occurred during import", <<status>>))
            /\ pc' = "done"
            /\ outcome' = Returned
            /\ UNCHANGED <<repo, chunk>>
       ELSE /\ repo' = Append(repo, requests[Len(requests)].body)
            /\ chunk' = chunk
            /\ out' = Append(out, Msg("Uploaded lines", <<i>>))
            /\ pc' = "chunk_loop"
            /\ UNCHANGED outcome
    /\ UNCHANGED <<op, format, split, useOut, graph, inFile, outFile, f, i, requests>>

\* the loop catching a failed write inside the loop body and going on
chunked_post_response_continue(status) ==
    /\ pc = "chunk_post"
    /\ responses' = Append(responses, status)
    /\ IF raise_for_status(status)
       THEN /\ out' = Append(out, Msg("An error occurred during import", <<status>>))
            /\ chunk' = <<>>
            /\ pc' = "chunk_loop"
            /\ UNCHANGED <<repo, outcome>>
       ELSE /\ repo' = Append(repo, requests[Len(requests)].body)
            /\ chunk' = <<>>
            /\ out' = Append(out, Msg("Uploaded lines", <<i>>))
            /\ pc' = "chunk_loop"
            /\ UNCHANGED outcome
    /\ UNCHANGED <<op, format, split, useOut, graph, inFile, outFile, f, i, requests>>

\* cli.py 221-224, 233-234: the response of a chunk write inside the loop
chunked_post_response(status) ==
    /\ pc = "chunk_post"
    /\ responses' = Append(responses, status)
    /\ IF raise_for_status(status)
       THEN /\ out' = Append(out, Msg("An error occurred during import", <<status>>))
            /\ pc' = "done"
            /\ outcome' = Returned
            /\ UNCHANGED <<repo, chunk>>
       ELSE /\ repo' = Append(repo, requests[Len(requests)].body)
            /\ chunk' = <<>>
            /\ out' = Append(out, Msg("Uploaded lines", <<i>>))
            /\ pc' = "chunk_loop"
            /\ UNCHANGED outcome
    /\ UNCHANGED <<op, format, split, useOut, graph, inFile, outFile, f, i, requests>>

\* end of input flushing the remainder without the `if chunk:` test
chunked_end_of_input_always_flush ==
    /\ pc = "chunk_loop"
    /\ i = Len(f)
    /\ requests' = Append(requests, Post(mime_types[format], Encode(Join(chunk))))
    /\ pc' = "tail_post"
    /\ UNCHANGED <<op, format, split, useOut, graph, inFile, outFile, f, i, chunk,
                   responses, repo, out, outcome>>

\* cli.py 225-230: end of input, flush a non-empty remainder
chunked_end_of_input ==
    /\ pc = "chunk_loop"
    /\ i = Len(f)
    /\ IF chunk # <<>>
       THEN /\ requests' = Append(requests, Post(mime_types[format], Encode(Join(chunk))))
            /\ pc' = "tail_post"
            /\ UNCHANGED <<out, outcome>>
       ELSE /\ out' = Append(out, Msg("Import finished successfully", <<>>))
            /\ pc' = "done"
            /\ outcome' = Returned
            /\ UNCHANGED requests
    /\ UNCHANGED <<op, format, split, useOut, graph, inFile, outFile, f, i, chunk, responses, repo>>

\* cli.py 227-230, 233-234: the response of the write of the remainder
chunked_tail_response(status) ==
    /\ pc = "tail_post"
    /\ responses' = Append(responses, status)
    /\ IF raise_for_status(status)
       THEN /\ out' = Append(out, Msg("An error occurred during import", <<status>>))
            /\ UNCHANGED repo
       ELSE /\ repo' = Append(repo, requests[Len(requests)].body)
            /\ out' = out \o <<Msg("Uploaded remaining lines", <<Len(chunk)>>),
                               Msg("Import finished successfully", <<>>)>>
    /\ pc' = "done"
    /\ outcome' = Returned
    /\ UNCHANGED <<op, format, split, useOut, graph, inFile, outFile, f, i, chunk, requests>>

\* cli.py 239-242, 245-246: read the whole source in binary mode and post it
single_open ==
    /\ pc = "single_open"
    /\ IF ~inFile.exists
       THEN /\ out' = Append(out, Msg("Error: Input file not found", <<>>))
            /\ pc' = "done"
            /\ outcome' = Returned
            /\ UNCHANGED requests
       ELSE /\ requests' = Append(requests, Post(mime_types[format], inFile.data))
            /\ pc' = "single_post"
            /\ UNCHANGED <<out, outcome>>
    /\ UNCHANGED <<op, format, split, useOut, graph, inFile, outFile, f, i, chunk, responses, repo>>

\* cli.py 242-244, 247-248: the response of the single write
single_post_response(status) ==
    /\ pc = "single_post"
    /\ responses' = Append(responses, status)
    /\ IF raise_for_status(status)
       THEN /\ out' = Append(out, Msg("An error occurred during import", <<status>>))
            /\ UNCHANGED repo
       ELSE /\ repo' = Append(repo, requests[Len(requests)].body)
            /\ out' = Append(out, Msg("Import finished successfully", <<>>))
    /\ pc' = "done"
    /\ outcome' = Returned
    /\ UNCHANGED <<op, format, split, useOut, graph, inFile, outFile, f, i, chunk, requests>>

\* cli.py 221, 227, 242 with 233-234, 247-248: requests.post raises a
\* RequestException (no response), which import_file catches and prints
post_network_error ==
    /\ pc \in {"chunk_post", "tail_post", "single_post"}
    /\ responses' = Append(responses, NetworkError)
    /\ out' = Append(out, Msg("An error occurred during import", <<NetworkError>>))
    /\ pc' = "done"
    /\ outcome' = Returned
    /\ UNCHANGED <<op, format, split, useOut, graph, inFile, outFile, f, i, chunk, requests, repo>>

\* ------------------------------------------------------------------ dump
\* dump issuing the GET before looking at the format
dump_fetch_first(fmt, withOut) ==
    /\ pc = "idle"
    /\ op' = "dump"
    /\ format' = fmt
    /\ useOut' = withOut
    /\ requests' = Append(requests, Get(mime_types_get(fmt)))
    /\ IF mime_types_get(fmt) = ""
       THEN /\ out' = Append(out, UnsupportedMsg(fmt))
            /\ pc' = "done"
            /\ outcome' = Returned
       ELSE /\ pc' = "dump_get"
            /\ UNCHANGED <<out, outcome>>
    /\ UNCHANGED <<split, graph, inFile, outFile, f, i, chunk, responses, repo>>

\* cli.py 179-187: format check, then the bulk fetch
dump(fmt, withOut) ==
    /\ pc = "idle"
    /\ op' = "dump"
    /\ format' = fmt
    /\ useOut' = withOut
    /\ IF mime_types_get(fmt) = ""
       THEN /\ out' = Append(out, UnsupportedMsg(fmt))
            /\ pc' = "done"
            /\ outcome' = Returned
            /\ UNCHANGED requests
       ELSE /\ requests' = Append(requests, Get(mime_types[fmt]))
            /\ pc' = "dump_get"
            /\ UNCHANGED <<out, outcome>>
    /\ UNCHANGED <<split, graph, inFile, outFile, f, i, chunk, responses, repo>>

\* dump without response.raise_for_status()
dump_response_unchecked(status, text) ==
    /\ pc = "dump_get"
    /\ responses' = Append(responses, status)
    /\ pc' = "done"
    /\ outcome' = Returned
    /\ IF useOut
       THEN outFile' = File(text) /\ out' = out
       ELSE out' = Append(out, Msg("response.text", text)) /\ outFile' = outFile
    /\ UNCHANGED <<op, format, split, useOut, graph, inFile, f, i, chunk, requests, repo>>

\* cli.py 187-193: raise_for_status, then write or print the response text
dump_response(status, text) ==
    /\ pc = "dump_get"
    /\ responses' = Append(responses, status)
    /\ pc' = "done"
    /\ IF raise_for_status(status)
       THEN /\ outcome' = Raised("HTTPError", status)
            /\ UNCHANGED <<outFile, out>>
       ELSE /\ outcome' = Returned
            /\ IF useOut
               THEN outFile' = File(text) /\ out' = out
               ELSE out' = Append(out, Msg("response.text", text)) /\ outFile' = outFile
    /\ UNCHANGED <<op, format, split, useOut, graph, inFile, f, i, chunk, requests, repo>>

\* cli.py 187: requests.get raises a ConnectionError, which dump does not catch
dump_network_error ==
    /\ pc = "dump_get"
    /\ responses' = Append(responses, NetworkError)
    /\ pc' = "done"
    /\ outcome' = Raised("ConnectionError", NetworkError)
    /\ UNCHANGED <<op, format, split, useOut, graph, inFile, outFile, f, i, chunk, requests, repo, out>>

\* ---------------------------------------------------------------- export
\* cli.py 147-151: with an output file, open it for writing first
export(g, fmt, withOut) ==
    /\ pc = "idle"
    /\ op' = "export"
    /\ graph' = g
    /\ format' = fmt
    /\ useOut' = withOut
    /\ IF withOut
       THEN /\ outFile' = File(<<>>)            \* open(output_file, "w") truncates or creates
            /\ pc' = "export_write"
            /\ UNCHANGED <<out, outcome>>
       ELSE /\ UNCHANGED outFile
            /\ IF Serializable(fmt)
               THEN /\ out' = Append(out, Msg("serialized", serialize(g, fmt)))
                    /\ outcome' = Returned
               ELSE /\ out' = out
                    /\ outcome' = Raised("PluginException", 0)
            /\ pc' = "done"
    /\ UNCHANGED <<split, inFile, f, i, chunk, requests, responses, repo>>

\* cli.py 149: f.write(artifact_graph.serialize(format=format)) in the open file
export_write ==
    /\ pc = "export_write"
    /\ pc' = "done"
    /\ IF Serializable(format)
       THEN /\ outFile' = File(serialize(graph, format))
            /\ outcome' = Returned
       ELSE /\ outcome' = Raised("PluginException", 0)
            /\ UNCHANGED outFile
    /\ UNCHANGED <<op, format, split, useOut, graph, inFile, f, i, chunk, requests, responses, repo, out>>

Next ==
    \/ \E fmt \in FormatArgs, sp \in SplitArgs : import_file(fmt, sp)
    \/ chunked_open
    \/ chunked_next_line
    \/ \E status \in Statuses : chunked_post_response(status)
    \/ chunked_end_of_input
    \/ \E status \in Statuses : chunked_tail_response(status)
    \/ single_open
    \/ \E status \in Statuses : single_post_response(status)
    \/ post_network_error
    \/ \E fmt \in FormatArgs, withOut \in BOOLEAN : dump(fmt, withOut)
    \/ \E status \in Statuses, text \in ResponseTexts : dump_response(status, text)
    \/ dump_network_error
    \/ \E g \in Graphs, fmt \in FormatArgs, withOut \in BOOLEAN : export(g, fmt, withOut)
    \/ export_write

Spec == Init /\ [][Next]_vars

TypeOK ==
    /\ pc \in {"idle", "chunk_open", "chunk_loop", "chunk_post", "tail_post",
               "single_open", "single_post", "dump_get", "export_write", "done"}
    /\ Len(responses) <= Len(requests)

\* ------------------------------------------------------ claim vocabulary
Bodies == [k \in 1..Len(requests) |-> requests[k].body]
Failed(status) == status = NetworkError \/ raise_for_status(status)
AllWritesSucceeded ==
    /\ Len(responses) = Len(requests)
    /\ \A k \in 1..Len(responses) : ~Failed(responses[k])
\* the call is import_file on the chunked path with an existing source
ChunkedImport ==
    /\ op = "import_file"
    /\ format \in {"nquads", "n3"}
    /\ split.given /\ split.n > 0
    /\ inFile.exists
\* the call is import_file on the single-shot path with an existing source
SingleShotImport ==
    /\ op = "import_file"
    /\ format \in DOMAIN mime_types
    /\ (~split.given \/ split.n = 0 \/ format \in {"turtle", "json-ld", "xml"})
    /\ inFile.exists
\* the lines of the source (a line ends at LF, CRLF or CR; the last may be unterminated)
SourceLines == ReadTextLines(inFile.data)
\* number of lines in a request body
LineCount(body) == Len(SplitLines(Decode(body), <<>>))
\* the source's lines cut into consecutive groups of n, the last possibly shorter
RECURSIVE ChunksOf(_, _)
ChunksOf(ls, n) ==
    IF ls = <<>> THEN <<>>
    ELSE IF Len(ls) <= n THEN <<ls>>
    ELSE <<SubSeq(ls, 1, n)>> \o ChunksOf(SubSeq(ls, n + 1, Len(ls)), n)
ChunkBodies ==
    LET cs == ChunksOf(SourceLines, split.n)
    IN  [k \in 1..Len(cs) |-> Encode(Join(cs[k]))]
IsPrefix(s, t) == Len(s) <= Len(t) /\ \A k \in 1..Len(s) : s[k] = t[k]
Printed(m) == \E k \in 1..Len(out) : out[k].msg = m
StatementWrite(r) ==
    /\ r.method = "POST"
    /\ r.endpoint = <<repo_endpoint, "/repository/statements">>
    /\ r.header = <<"Content-Type", mime_types[format]>>

\* C1: in a chunked import whose writes all succeed, the POST bodies
\* concatenated in issue order are the source file byte for byte, and every
\* body but the last ends at a line break.
C1_RoundTrip ==
    (ChunkedImport /\ pc = "done" /\ AllWritesSucceeded) =>
        /\ Join(Bodies) = inFile.data
        /\ \A k \in 1..(Len(Bodies) - 1) : Bodies[k] # <<>> /\ Bodies[k][Len(Bodies[k])] = 10

\* C2: in a chunked import of L lines with split N whose writes all succeed,
\* exactly ceil(L/N) writes are issued, all but the last of exactly N lines,
\* the last of 1..N lines, each a POST to the statements endpoint with the
\* Content-Type of the format.
C2_ChunkSizes ==
    (ChunkedImport /\ pc = "done" /\ AllWritesSucceeded) =>
        LET L == Len(SourceLines)
            N == split.n
        IN  /\ Len(requests) = (L + N - 1) \div N
            /\ \A k \in 1..Len(requests) :
                  /\ StatementWrite(requests[k])
                  /\ LineCount(requests[k].body) <= N
                  /\ k < Len(requests) => LineCount(requests[k].body) = N
                  /\ k = Len(requests) => LineCount(requests[k].body) >= 1

C2_Witness ==
    /\ ChunkedImport /\ pc = "done" /\ AllWritesSucceeded
    /\ format = "nquads" /\ split.n = 2
    /\ Len(SourceLines) = 5
    /\ Len(requests) = 3
    /\ LineCount(requests[3].body) = 1

\* C3 as stated: with split N >= the line count, an empty source included,
\* a finished chunked import has issued exactly one write carrying the
\* whole payload.
C3_Original ==
    (ChunkedImport /\ pc = "done" /\ split.n >= Len(SourceLines)) =>
        /\ Len(requests) = 1
        /\ requests[1].body = inFile.data

\* C3 amended: with split N >= the line count L, a finished chunked import
\* has issued no write when L = 0, and when L >= 1 exactly one write whose
\* body is the whole source with its line ends read as LF.
C3_SingleChunk ==
    (ChunkedImport /\ pc = "done" /\ split.n >= Len(SourceLines)) =>
        IF Len(SourceLines) = 0
        THEN requests = <<>>
        ELSE /\ Len(requests) = 1
             /\ StatementWrite(requests[1])
             /\ requests[1].body = Encode(TranslateNewlines(Decode(inFile.data)))

C3_Witness ==
    /\ ChunkedImport /\ pc = "done" /\ AllWritesSucceeded
    /\ split.n = 2 /\ Len(SourceLines) = 2
    /\ Len(inFile.data) = 4
    /\ Len(requests) = 1

\* C4: at every point of a chunked import the writes issued so far are a
\* prefix of the source's chunk sequence, at most one write is in flight,
\* and every write before the latest one has completed successfully.
C4_Sequential ==
    ChunkedImport =>
        /\ IsPrefix(Bodies, ChunkBodies)
        /\ Len(requests) - Len(responses) \in {0, 1}
        /\ \A k \in 1..(Len(requests) - 1) :
              k <= Len(responses) /\ ~Failed(responses[k])

C4_Witness ==
    /\ ChunkedImport /\ pc = "chunk_post"
    /\ Len(requests) = 2 /\ Len(responses) = 1
    /\ requests[1].body # requests[2].body

\* C5: in a chunked import a failed write is the last request ever issued,
\* every request is a statement write (none deletes or undoes), and the
\* repository holds exactly the chunks written before the failure.
C5_AbortOnFailure ==
    ChunkedImport =>
        /\ \A k \in 1..Len(responses) : Failed(responses[k]) => Len(requests) = k
        /\ \A k \in 1..Len(requests) : StatementWrite(requests[k])
        /\ LET good == Cardinality({k \in 1..Len(responses) : ~Failed(responses[k])})
           IN  repo = SubSeq(ChunkBodies, 1, good)

C5_Witness ==
    /\ ChunkedImport /\ pc = "done"
    /\ Len(requests) = 2 /\ Len(responses) = 2
    /\ responses[2] = 500
    /\ Len(ChunkBodies) >= 3
    /\ Len(repo) = 1

\* C6: when a write of import_file gets a non-success HTTP status, the call
\* ends by raising an HTTP error carrying that status, and does not print
\* that the import finished successfully.
C6_RaisesOnFailedWrite ==
    (op = "import_file" /\ pc = "done") =>
        \A k \in 1..Len(responses) :
            (responses[k] \in Statuses /\ raise_for_status(responses[k])) =>
                /\ outcome = Raised("HTTPError", responses[k])
                /\ ~Printed("Import finished successfully")

\* C7: dump or import_file with a format outside the five names issues no
\* request and reports the unsupported format with the five valid names;
\* import_file on a missing source issues no request, on either path.
C7_NoRequestOnLocalFailure ==
    /\ (op \in {"dump", "import_file"} /\ format \notin {"turtle", "n3", "json-ld", "xml", "nquads"}) =>
          /\ requests = <<>>
          /\ pc = "done"
          /\ Len(out) = 1
          /\ out[1].msg = "Unsupported format"
          /\ out[1].arg = <<format, <<"turtle", "n3", "json-ld", "xml", "nquads">> >>
    /\ (op = "import_file" /\ ~inFile.exists) => requests = <<>>

C7_Witness ==
    /\ op = "dump" /\ format = "pdf" /\ pc = "done"
    /\ requests = <<>>
    /\ Printed("Unsupported format")

\* C8: import_file with split absent (None or 0) or with format turtle,
\* json-ld or xml issues exactly one write whose body is the entire source;
\* a split given for such a format only adds a warning.
C8_SingleShot ==
    SingleShotImport =>
        /\ Len(requests) <= 1
        /\ pc \in {"single_open", "single_post", "done"}
        /\ pc \in {"single_post", "done"} =>
              /\ Len(requests) = 1
              /\ StatementWrite(requests[1])
              /\ requests[1].body = inFile.data
        /\ (split.given /\ split.n > 0) <=> Printed("Warning: split ignored")
        /\ outcome.kind \in {"running", "returned"}

C8_Witness ==
    /\ SingleShotImport /\ pc = "done"
    /\ format = "turtle" /\ split.given /\ split.n = 1
    /\ Len(SourceLines) >= 2
    /\ \E k \in 1..Len(inFile.data) : inFile.data[k] = 13
    /\ AllWritesSucceeded
    /\ Printed("Warning: split ignored")

\* C9: when the bulk fetch of dump answers with a non-success status, dump
\* raises an HTTP error carrying that status, leaves the output file as it
\* was and prints nothing.
C9_DumpRaises ==
    [][ /\ (op' = "dump" /\ pc = "idle" /\ pc' = "dump_get") =>
              (outFile' = outFile /\ out' = out)
        /\ (pc = "dump_get" /\ Len(responses') = 1 /\ raise_for_status(responses'[1])) =>
              /\ outcome' = Raised("HTTPError", responses'[1])
              /\ pc' = "done"
              /\ outFile' = outFile
              /\ out' = out ]_vars

C9_Witness ==
    /\ op = "dump" /\ pc = "done" /\ useOut
    /\ responses = <<500>>
    /\ outcome = Raised("HTTPError", 500)
    /\ outFile.exists

\* C10: export called with a destination path and a format that cannot be
\* serialized fails with the unsupported-format error and leaves the
\* destination file as it was.
C10_ExportKeepsFile ==
    [][ (op' = "export" /\ useOut' /\ ~Serializable(format')) =>
            /\ outFile' = outFile
            /\ pc' = "done" => outcome'.kind = "PluginException" ]_vars
====
